---- MODULE Spec2Model ----
(***************************************************************************)
(* Ownership annotations of the resources of a Helm release                *)
(* (pkg/release/annotate.go): annotatedWithResourceID ("verify"),          *)
(* annotateWithResourceID ("claim") and releaseManifestToUnstructured      *)
(* (the manifest decomposer), against a Kubernetes backend that answers    *)
(* Get and Patch requests.                                                 *)
(***************************************************************************)
EXTENDS Naturals, Sequences, FiniteSets, TLC

VARIABLES
    manifest,    \* rel.Manifest: the documents of the release manifest, in text order
    store,       \* the backend: resource key -> live object (or NoObject)
    op,          \* the function being executed: "none", "verify" or "claim"
    pc,          \* its position: "idle", "loop", "fetch", "after", "patch", "done"
    resourceID,  \* the resourceID argument of the call
    kubeConfig,  \* the kubeConfig argument of the call
    objs,        \* objs: the descriptors releaseManifestToUnstructured returned
    idx,         \* position of the range loop over objs (1-based)
    steps,       \* backoff.Steps left inside wait.ExponentialBackoff
    res,         \* the closure variable res of the fetch block
    err,         \* the closure variable err of the fetch block
    waitErr,     \* the (discarded) return value of wait.ExponentialBackoff
    ret,         \* the values the call returned
    nGets,       \* history: Gets issued for the descriptor at idx
    lastGet,     \* history: what the most recent Get answered
    fetched,     \* history: the objects the fetches of this call yielded, each
                 \* with the position of its descriptor
    issued,      \* history: the requests this call sent to the backend
    patched,     \* history: the resources this call patched successfully
    store0,      \* history: the backend as it was when the call began
    prev,        \* history: the claim that completed just before this call, if
                 \* the previous call was a claim: its identifier, and whether
                 \* it patched at least one resource and each of its patches
                 \* succeeded; a verify call keeps it only in the latter case
    calls        \* invocations that run side by side, each with its own
                 \* locals, on one backend (used by SpecCalls only)

vars == <<manifest, store, op, pc, resourceID, kubeConfig, objs, idx, steps, res, err,
          waitErr, ret, nGets, lastGet, fetched, issued, patched, store0,
          prev, calls>>

-----------------------------------------------------------------------------
(* Bounds of the model *)

MaxDocs == 2

-----------------------------------------------------------------------------
(* Values *)

AntecedentAnnotation == "helm.fluxcd.io/antecedent"

\* retry.DefaultBackoff.Steps, the attempt ceiling of wait.ExponentialBackoff
Steps == 4

Nil == "nil"
NoObject == [absent |-> TRUE]

ReleaseNamespace == "default"

\* resource.ID values handed to verify and claim
IdA == [ns |-> "default", kind |-> "helmrelease", name |-> "a"]
IdB == [ns |-> "default", kind |-> "helmrelease", name |-> "b"]
IDs == {IdA, IdB}

\* resource.ID.String(): "<namespace>:<kind>/<name>"
IDString(id) == id.ns \o ":" \o id.kind \o "/" \o id.name

IDStrings == { IDString(id) : id \in IDs }

\* Descriptors: the fields of an unstructured object the functions read
Desc(k, ns, n) == [kind |-> k, ns |-> ns, name |-> n]

Descs == { Desc("ConfigMap", "", "a"),
           Desc("ConfigMap", "other", "a"),
           Desc("Widget", "", "a") }

\* The descriptor of an object of a list kind: a list wrapper that is a member
\* of a list, or a list-kind document without an items array
ListDesc == Desc("List", "", "")

-----------------------------------------------------------------------------
(* Manifest documents *)

BadDoc == [t |-> "bad"]
ObjDoc(d) == [t |-> "obj", d |-> d]
ListDoc(items) == [t |-> "list", items |-> items]

ObjItem(d) == [t |-> "obj", d |-> d]
ScalarItem == [t |-> "scalar"]
ListItem == [t |-> "list"]

DocSet ==
    {BadDoc}
      \cup { ObjDoc(d) : d \in Descs }
      \cup { ListDoc(<<ObjItem(Desc("ConfigMap", "other", "a")),
                       ObjItem(Desc("ConfigMap", "", "a"))>>) }

SeqsUpTo(S, n) == UNION { [1..k -> S] : k \in 0..n }

Manifests == SeqsUpTo(DocSet, MaxDocs)

\* A document of a list kind whose items is absent, null or not an array:
\* u.IsList() is false for it, so the code handles it as any other object
ListKindDoc == ObjDoc(ListDesc)

\* The documents the decomposer is run on by itself: the above, a list-kind
\* document without an items array, and lists that are empty, hold a member
\* that is not an object, or hold a list wrapper
DecomposeDocSet ==
    DocSet
      \cup { ListKindDoc,
             ListDoc(<<>>),
             ListDoc(<<ObjItem(Desc("Widget", "", "a"))>>),
             ListDoc(<<ObjItem(Desc("ConfigMap", "", "a")), ScalarItem>>),
             ListDoc(<<ListItem>>),
             ListDoc(<<ObjItem(Desc("ConfigMap", "", "a")), ListItem,
                       ObjItem(Desc("Widget", "", "a"))>>) }

DecomposeManifests == SeqsUpTo(DecomposeDocSet, MaxDocs)

-----------------------------------------------------------------------------
(* The backend *)

Keys == { [resource |-> "configmaps", ns |-> n, name |-> "a"] :
            n \in {ReleaseNamespace, "other"} }

Object(anns) == [annotations |-> anns, data |-> "payload"]

Objects ==
    { Object(("app" :> "x")),
      Object(("app" :> "x") @@ (AntecedentAnnotation :> IDString(IdA))),
      Object(("app" :> "x") @@ (AntecedentAnnotation :> IDString(IdB))) }

Stores == [Keys -> Objects \cup {NoObject}]

\* Errors a request can fail with, besides the backend's own not-found
Faults == {"ConnectionReset", "InternalError", "Timeout", "TooManyRequests",
           "RetryAfter", "Forbidden"}

Responses == {"ok"} \cup Faults

ErrWaitTimeout == "ErrWaitTimeout"

\* client.Resource(r).Namespace(ns).Get(name): the object and the error
BackendGet(st, key, resp) ==
    IF resp # "ok" THEN [res |-> NoObject, err |-> resp]
    ELSE IF key \notin DOMAIN st \/ st[key] = NoObject
         THEN [res |-> NoObject, err |-> "NotFound"]
         ELSE [res |-> st[key], err |-> Nil]

\* The merge patch document claim builds from the identifier
Annotation(id) == [annotations |-> (AntecedentAnnotation :> IDString(id))]

\* Variant: a key the object already has is extended instead of overwritten
MergePatch_Append(obj, patch) ==
    [obj EXCEPT !.annotations =
        [k \in DOMAIN obj.annotations \cup DOMAIN patch.annotations |->
            IF k \notin DOMAIN patch.annotations THEN obj.annotations[k]
            ELSE IF k \in DOMAIN obj.annotations
                 THEN obj.annotations[k] \o "," \o patch.annotations[k]
                 ELSE patch.annotations[k]]]

\* Variant: an annotation the object already carries is kept
MergePatch_KeepExisting(obj, patch) ==
    [obj EXCEPT !.annotations =
        [k \in DOMAIN obj.annotations \cup DOMAIN patch.annotations |->
            IF k \in DOMAIN obj.annotations
            THEN obj.annotations[k] ELSE patch.annotations[k]]]

\* Variant: the patch replaces the annotations instead of merging into them
MergePatch_Replace(obj, patch) ==
    [obj EXCEPT !.annotations = patch.annotations]

\* A JSON merge patch of metadata.annotations: the keys of the patch are set,
\* every other annotation and every other field is kept
MergePatch(obj, patch) ==
    [obj EXCEPT !.annotations =
        [k \in DOMAIN obj.annotations \cup DOMAIN patch.annotations |->
            IF k \in DOMAIN patch.annotations
            THEN patch.annotations[k] ELSE obj.annotations[k]]]

\* client.Resource(r).Namespace(ns).Patch(name, MergePatchType, patch):
\* the backend afterwards and the error
BackendPatch(st, key, patch, resp) ==
    IF resp # "ok" THEN [store |-> st, err |-> resp]
    ELSE IF key \notin DOMAIN st \/ st[key] = NoObject
         THEN [store |-> st, err |-> "NotFound"]
         ELSE [store |-> [st EXCEPT ![key] = MergePatch(@, patch)], err |-> Nil]

-----------------------------------------------------------------------------
(* Construction of the backend handle and of the discovery table *)

KubeConfigs == {"good", "badClient", "badDiscovery"}

\* dynamic.NewForConfig: the error it returns
NewForConfig(cfg) ==
    IF cfg = "badClient" THEN "ErrClientConfig" ELSE Nil

\* Variant: the discovery error is dropped
buildDiscoveryRestMapper_Dropped(cfg) == Nil

\* buildDiscoveryRestMapper: the error it returns
buildDiscoveryRestMapper(cfg) ==
    IF cfg = "badDiscovery" THEN "ErrDiscovery" ELSE Nil

\* The kinds the discovery table knows, with their resource types
DiscoveryTable == [k \in {"ConfigMap"} |-> "configmaps"]

\* restMap.RESTMapping(groupKind, version): does it return an error
RESTMappingMiss(obj) == obj.kind \notin DOMAIN DiscoveryTable

\* Variant: every request goes to the namespace of the release
Namespace_Release(obj) == ReleaseNamespace

\* obj.GetNamespace() after the defaulting of an empty namespace
Namespace(obj) == IF obj.ns = "" THEN ReleaseNamespace ELSE obj.ns

\* The resource a request for obj addresses
Key(obj) == [resource |-> DiscoveryTable[obj.kind], ns |-> Namespace(obj),
             name |-> obj.name]

-----------------------------------------------------------------------------
(* releaseManifestToUnstructured *)

\* releaseutil.SplitManifests: a map from "manifest-<i>" to the i-th document
SplitManifests(m) == [i \in 1..Len(m) |-> m[i]]

\* The orders in which a range statement can visit the keys of a map
RangeOrders(map) ==
    { o \in [1..Cardinality(DOMAIN map) -> DOMAIN map] :
        \A i, j \in DOMAIN o : i # j => o[i] # o[j] }

\* yaml.Unmarshal(doc, &u) returns an error
UnmarshalFails(doc) == doc.t = "bad"

\* u.IsList(): the document has an items field that is an array
IsList(doc) == doc.t = "list"

\* u.ToList() returns an error: a member of items is not an object
ToListFails(doc) == \E i \in DOMAIN doc.items : doc.items[i].t = "scalar"

\* The Items of u.ToList(): each member as it stands, a list wrapper included
ListItems(doc) ==
    [i \in DOMAIN doc.items |->
        IF doc.items[i].t = "list" THEN ListDesc ELSE doc.items[i].d]

\* Variant: the wrapper is appended after its members
DocObjs_KeepWrapper(doc) ==
    IF UnmarshalFails(doc) THEN <<>>
    ELSE IF IsList(doc)
         THEN (IF ToListFails(doc) THEN <<>>
               ELSE ListItems(doc) \o <<ListDesc>>)
         ELSE <<doc.d>>

\* Variant: a list whose conversion fails still yields the members that come
\* before the one that is not an object
DocObjs_Partial(doc) ==
    IF UnmarshalFails(doc) THEN <<>>
    ELSE IF IsList(doc)
         THEN (IF ToListFails(doc)
               THEN LET bad == CHOOSE i \in DOMAIN doc.items :
                                  /\ doc.items[i].t = "scalar"
                                  /\ \A j \in 1..(i - 1) :
                                        doc.items[j].t # "scalar"
                    IN  ListItems([doc EXCEPT
                                     !.items = SubSeq(doc.items, 1, bad - 1)])
               ELSE ListItems(doc))
         ELSE <<doc.d>>

\* What one iteration of the loop appends to objs
DocObjs(doc) ==
    IF UnmarshalFails(doc) THEN <<>>
    ELSE IF IsList(doc)
         THEN (IF ToListFails(doc) THEN <<>> ELSE ListItems(doc))
         ELSE <<doc.d>>

RECURSIVE AppendDocs(_, _, _)
AppendDocs(map, order, i) ==
    IF i > Len(order) THEN <<>>
    ELSE DocObjs(map[order[i]]) \o AppendDocs(map, order, i + 1)

\* objs when the range over the documents visits them in the given order
releaseManifestToUnstructured(m, order) == AppendDocs(SplitManifests(m), order, 1)

-----------------------------------------------------------------------------
(* The fetch block of annotatedWithResourceID *)

IsConnectionReset(e) == e = "ConnectionReset"
IsInternalError(e) == e = "InternalError"
IsTimeout(e) == e = "Timeout"
IsTooManyRequests(e) == e = "TooManyRequests"
SuggestsClientDelay(e) == e = "RetryAfter"

\* Variant: not-found is retried like a transient error
ConditionFunc_RetryNotFound(e) ==
    IF IsConnectionReset(e) \/ IsInternalError(e) \/ IsTimeout(e)
         \/ IsTooManyRequests(e) \/ e = "NotFound"
    THEN [done |-> FALSE, err |-> Nil]
    ELSE IF SuggestsClientDelay(e) THEN [done |-> FALSE, err |-> Nil]
    ELSE IF e # Nil THEN [done |-> FALSE, err |-> e]
    ELSE [done |-> TRUE, err |-> Nil]

\* The condition function handed to wait.ExponentialBackoff, after the Get
\* answered e: (done, error)
ConditionFunc(e) ==
    IF IsConnectionReset(e) \/ IsInternalError(e) \/ IsTimeout(e)
         \/ IsTooManyRequests(e)
    THEN [done |-> FALSE, err |-> Nil]
    ELSE IF SuggestsClientDelay(e) THEN [done |-> FALSE, err |-> Nil]
    ELSE IF e # Nil THEN [done |-> FALSE, err |-> e]
    ELSE [done |-> TRUE, err |-> Nil]

\* Variant: the loop does not count its attempts
BackoffStep_NoCeiling(c, n) ==
    IF c.err # Nil \/ c.done THEN [stop |-> TRUE, err |-> c.err, steps |-> n]
    ELSE [stop |-> FALSE, err |-> Nil, steps |-> n]

\* Variant: the loop gives up one attempt early
BackoffStep_Early(c, n) ==
    IF c.err # Nil \/ c.done THEN [stop |-> TRUE, err |-> c.err, steps |-> n]
    ELSE IF n <= 2 THEN [stop |-> TRUE, err |-> ErrWaitTimeout, steps |-> n]
    ELSE [stop |-> FALSE, err |-> Nil, steps |-> n - 1]

\* One pass of the loop of wait.ExponentialBackoff after the condition
\* returned c with n steps left: does the loop end, what does the call return,
\* how many steps are left
BackoffStep(c, n) ==
    IF c.err # Nil \/ c.done THEN [stop |-> TRUE, err |-> c.err, steps |-> n]
    ELSE IF n = 1 THEN [stop |-> TRUE, err |-> ErrWaitTimeout, steps |-> n]
    ELSE [stop |-> FALSE, err |-> Nil, steps |-> n - 1]

\* Variant: the check looks at what wait.ExponentialBackoff returned
FetchErr_Wait(e, w) == w

\* The error the check after the backoff looks at: the closure's err, not the
\* value wait.ExponentialBackoff returned
FetchErr(e, w) == e

\* Variant: a foreign identifier is reported like a release nobody claimed
AnnotationResult_Conflate(v, id) ==
    IF v = IDString(id) THEN [ok |-> TRUE, v |-> v, err |-> Nil]
    ELSE [ok |-> TRUE, v |-> "", err |-> Nil]

\* return v == resourceID.String(), v, nil
AnnotationResult(v, id) == [ok |-> v = IDString(id), v |-> v, err |-> Nil]

\* Variant: an unannotated release is reported as not owned
Unclaimed_NotOwned == [ok |-> FALSE, v |-> "", err |-> Nil]

\* return true, "", nil
Unclaimed == [ok |-> TRUE, v |-> "", err |-> Nil]

\* return false, "", err
Failed(e) == [ok |-> FALSE, v |-> "", err |-> e]

NoRet == [ok |-> FALSE, v |-> "", err |-> "unset"]
NoPrev == [id |-> "none", clean |-> FALSE]
NoCalls == <<>>

-----------------------------------------------------------------------------
(* State *)

Init ==
    /\ manifest \in Manifests
    /\ store \in Stores
    /\ op = "none"
    /\ pc = "idle"
    /\ resourceID = IdA
    /\ kubeConfig = "good"
    /\ objs = <<>>
    /\ idx = 1
    /\ steps = 0
    /\ res = NoObject
    /\ err = Nil
    /\ waitErr = Nil
    /\ ret = NoRet
    /\ nGets = 0
    /\ lastGet = Nil
    /\ fetched = {}
    /\ issued = {}
    /\ patched = {}
    /\ store0 = store
    /\ prev = NoPrev
    /\ calls = NoCalls

\* The start of either function: the backend handle, the discovery table and
\* the descriptors; the call returns at once when a construction fails
Begin(f, id, cfg, order) ==
    /\ pc = "idle"
    /\ op' = f
    /\ resourceID' = id
    /\ kubeConfig' = cfg
    /\ idx' = 1
    /\ steps' = 0
    /\ res' = NoObject
    /\ err' = Nil
    /\ waitErr' = Nil
    /\ nGets' = 0
    /\ lastGet' = Nil
    /\ fetched' = {}
    /\ issued' = {}
    /\ patched' = {}
    /\ store0' = store
    /\ IF NewForConfig(cfg) # Nil
       THEN /\ pc' = "done"
            /\ ret' = Failed(NewForConfig(cfg))
            /\ objs' = <<>>
       ELSE IF buildDiscoveryRestMapper(cfg) # Nil
       THEN /\ pc' = "done"
            /\ ret' = Failed(buildDiscoveryRestMapper(cfg))
            /\ objs' = <<>>
       ELSE /\ pc' = "loop"
            /\ ret' = NoRet
            /\ objs' = releaseManifestToUnstructured(manifest, order)
    /\ UNCHANGED <<manifest, store, calls>>

\* annotatedWithResourceID, lines 45-55
VerifyBegin ==
    \E id \in IDs, cfg \in KubeConfigs,
       order \in RangeOrders(SplitManifests(manifest)) :
        /\ Begin("verify", id, cfg, order)
        /\ prev' = IF prev.clean THEN prev ELSE NoPrev

\* annotatedWithResourceID, lines 56-64 and 96: the head of the loop
VerifyLoop ==
    /\ op = "verify"
    /\ pc = "loop"
    /\ IF idx > Len(objs)
       THEN /\ pc' = "done"
            /\ ret' = Unclaimed
            /\ UNCHANGED <<idx, steps, res, err, waitErr, nGets>>
       ELSE IF RESTMappingMiss(objs[idx])
       THEN /\ idx' = idx + 1
            /\ UNCHANGED <<pc, ret, steps, res, err, waitErr, nGets>>
       ELSE /\ pc' = "fetch"
            /\ steps' = Steps
            /\ res' = NoObject
            /\ err' = Nil
            /\ waitErr' = Nil
            /\ nGets' = 0
            /\ UNCHANGED <<idx, ret>>
    /\ UNCHANGED <<manifest, store, op, resourceID, kubeConfig, objs, lastGet, fetched,
                   issued, patched, store0, prev, calls>>

\* annotatedWithResourceID, lines 69-85: one attempt of the backoff
VerifyGet ==
    \E resp \in Responses :
        LET key == Key(objs[idx])
            got == BackendGet(store, key, resp)
            nxt == BackoffStep(ConditionFunc(got.err), steps)
        IN  /\ op = "verify"
            /\ pc = "fetch"
            /\ res' = got.res
            /\ err' = got.err
            /\ nGets' = nGets + 1
            /\ lastGet' = got.err
            /\ issued' = issued \cup {[verb |-> "get", i |-> idx, key |-> key]}
            /\ steps' = nxt.steps
            /\ waitErr' = nxt.err
            /\ pc' = IF nxt.stop THEN "after" ELSE "fetch"
            /\ UNCHANGED <<manifest, store, op, resourceID, kubeConfig, objs, idx, ret,
                           fetched, patched, store0, prev, calls>>

\* Variant: verify stamps the expected identifier on a fetched object that
\* carries no ownership annotation
VerifyAfter_Stamp ==
    /\ op = "verify"
    /\ pc = "after"
    /\ IF FetchErr(err, waitErr) # Nil
       THEN /\ pc' = "done"
            /\ ret' = Failed(FetchErr(err, waitErr))
            /\ UNCHANGED <<idx, fetched, store>>
       ELSE /\ fetched' = fetched \cup {[i |-> idx, obj |-> res]}
            /\ IF AntecedentAnnotation \in DOMAIN res.annotations
               THEN /\ pc' = "done"
                    /\ ret' = AnnotationResult(res.annotations[AntecedentAnnotation],
                                               resourceID)
                    /\ idx' = idx
                    /\ store' = store
               ELSE /\ pc' = "loop"
                    /\ idx' = idx + 1
                    /\ ret' = ret
                    /\ store' = BackendPatch(store, Key(objs[idx]),
                                             Annotation(resourceID), "ok").store
    /\ UNCHANGED <<manifest, op, resourceID, kubeConfig, objs, steps, res, err,
                   waitErr, nGets, lastGet, issued, patched, store0, prev,
                   calls>>

\* annotatedWithResourceID, lines 87-94: after the backoff
VerifyAfter ==
    /\ op = "verify"
    /\ pc = "after"
    /\ IF FetchErr(err, waitErr) # Nil
       THEN /\ pc' = "done"
            /\ ret' = Failed(FetchErr(err, waitErr))
            /\ UNCHANGED <<idx, fetched>>
       ELSE /\ fetched' = fetched \cup {[i |-> idx, obj |-> res]}
            /\ IF AntecedentAnnotation \in DOMAIN res.annotations
               THEN /\ pc' = "done"
                    /\ ret' = AnnotationResult(res.annotations[AntecedentAnnotation],
                                               resourceID)
                    /\ idx' = idx
               ELSE /\ pc' = "loop"
                    /\ idx' = idx + 1
                    /\ ret' = ret
    /\ UNCHANGED <<manifest, store, op, resourceID, kubeConfig, objs, steps, res, err,
                   waitErr, nGets, lastGet, issued, patched, store0, prev,
                   calls>>

-----------------------------------------------------------------------------
(* annotateWithResourceID *)

\* Variant: a failed Patch ends the call
AfterPatch_Abort(e) == IF e # Nil THEN "done" ELSE "loop"

\* Where the loop goes after a Patch that returned e: the error is logged and
\* the loop goes on
AfterPatch(e) == "loop"

\* annotateWithResourceID, lines 102-113
ClaimBegin ==
    \E id \in IDs, cfg \in KubeConfigs,
       order \in RangeOrders(SplitManifests(manifest)) :
        /\ Begin("claim", id, cfg, order)
        /\ prev' = [prev EXCEPT !.clean = FALSE]

\* Variant: a resolution miss ends the call
ClaimLoop_MissEnds ==
    /\ op = "claim"
    /\ pc = "loop"
    /\ IF idx > Len(objs) \/ RESTMappingMiss(objs[idx])
       THEN /\ pc' = "done"
            /\ ret' = Failed(Nil)
            /\ idx' = idx
       ELSE /\ pc' = "patch"
            /\ UNCHANGED <<idx, ret>>
    /\ UNCHANGED <<manifest, store, op, resourceID, kubeConfig, objs, steps, res, err,
                   waitErr, nGets, lastGet, fetched, issued, patched, store0,
                   prev, calls>>

\* annotateWithResourceID, lines 114-123 and 129: the head of the loop
ClaimLoop ==
    /\ op = "claim"
    /\ pc = "loop"
    /\ IF idx > Len(objs)
       THEN /\ pc' = "done"
            /\ ret' = Failed(Nil)
            /\ idx' = idx
       ELSE IF RESTMappingMiss(objs[idx])
       THEN /\ idx' = idx + 1
            /\ UNCHANGED <<pc, ret>>
       ELSE /\ pc' = "patch"
            /\ UNCHANGED <<idx, ret>>
    /\ UNCHANGED <<manifest, store, op, resourceID, kubeConfig, objs, steps, res, err,
                   waitErr, nGets, lastGet, fetched, issued, patched, store0,
                   prev, calls>>

\* annotateWithResourceID, lines 125-127: the Patch of one descriptor, which
\* the backend answers with resp
ClaimPatchAnswered(resp) ==
    LET key == Key(objs[idx])
        done == BackendPatch(store, key, Annotation(resourceID), resp)
    IN  /\ op = "claim"
        /\ pc = "patch"
        /\ store' = done.store
        /\ issued' = issued \cup {[verb |-> "patch", i |-> idx, key |-> key]}
        /\ patched' = IF done.err = Nil THEN patched \cup {key} ELSE patched
        /\ pc' = AfterPatch(done.err)
        /\ idx' = IF AfterPatch(done.err) = "loop" THEN idx + 1 ELSE idx
        /\ ret' = IF AfterPatch(done.err) = "loop" THEN ret ELSE Failed(done.err)
        /\ UNCHANGED <<manifest, op, resourceID, kubeConfig, objs, steps, res, err,
                       waitErr, nGets, lastGet, fetched, store0, prev, calls>>

ClaimPatch == \E resp \in Responses : ClaimPatchAnswered(resp)

\* The call returns to its caller
Return ==
    /\ pc = "done"
    /\ pc' = "idle"
    /\ op' = "none"
    /\ prev' = IF op = "claim" /\ ret.err = Nil
               THEN [id |-> IDString(resourceID),
                     clean |-> /\ issued # {}
                               /\ \A r \in issued : r.key \in patched]
               ELSE NoPrev
    /\ resourceID' = IdA
    /\ kubeConfig' = "good"
    /\ objs' = <<>>
    /\ idx' = 1
    /\ steps' = 0
    /\ res' = NoObject
    /\ err' = Nil
    /\ waitErr' = Nil
    /\ ret' = NoRet
    /\ nGets' = 0
    /\ lastGet' = Nil
    /\ fetched' = {}
    /\ issued' = {}
    /\ patched' = {}
    /\ store0' = store
    /\ UNCHANGED <<manifest, store, calls>>

Next ==
    \/ VerifyBegin
    \/ VerifyLoop
    \/ VerifyGet
    \/ VerifyAfter
    \/ ClaimBegin
    \/ ClaimLoop
    \/ ClaimPatch
    \/ Return

Spec == Init /\ [][Next]_vars

-----------------------------------------------------------------------------
(* releaseManifestToUnstructured by itself *)

InitDecompose ==
    /\ manifest \in DecomposeManifests
    /\ store = [k \in Keys |-> NoObject]
    /\ op = "none"
    /\ pc = "idle"
    /\ resourceID = IdA
    /\ kubeConfig = "good"
    /\ objs = <<>>
    /\ idx = 1
    /\ steps = 0
    /\ res = NoObject
    /\ err = Nil
    /\ waitErr = Nil
    /\ ret = NoRet
    /\ nGets = 0
    /\ lastGet = Nil
    /\ fetched = {}
    /\ issued = {}
    /\ patched = {}
    /\ store0 = store
    /\ prev = NoPrev
    /\ calls = NoCalls

\* releaseManifestToUnstructured, lines 134-159: one call
Decompose ==
    \E order \in RangeOrders(SplitManifests(manifest)) :
        /\ pc = "idle"
        /\ op' = "decompose"
        /\ pc' = "done"
        /\ objs' = releaseManifestToUnstructured(manifest, order)
        /\ UNCHANGED <<manifest, store, resourceID, kubeConfig, idx, steps, res,
                       err, waitErr, ret, nGets, lastGet, fetched, issued,
                       patched, store0, prev, calls>>

NextDecompose ==
    \/ Decompose
    \/ Return

SpecDecompose == InitDecompose /\ [][NextDecompose]_vars

-----------------------------------------------------------------------------
(* annotateWithResourceID invoked again and again by its reconciling caller *)

InitConverge ==
    /\ manifest \in Manifests
    /\ store \in Stores
    /\ op = "none"
    /\ pc = "idle"
    /\ resourceID = IdA
    /\ kubeConfig = "good"
    /\ objs = <<>>
    /\ idx = 1
    /\ steps = 0
    /\ res = NoObject
    /\ err = Nil
    /\ waitErr = Nil
    /\ ret = NoRet
    /\ nGets = 0
    /\ lastGet = Nil
    /\ fetched = {}
    /\ issued = {}
    /\ patched = {}
    /\ store0 = store
    /\ prev = NoPrev
    /\ calls = NoCalls

\* The caller invokes claim once more, with the same manifest and identifier
ClaimAgain ==
    \E order \in RangeOrders(SplitManifests(manifest)) :
        /\ Begin("claim", IdA, "good", order)
        /\ prev' = [prev EXCEPT !.clean = FALSE]

\* The Patch of the resource k is issued and the backend accepts it
PatchSucceeds(k) ==
    /\ pc = "patch"
    /\ Key(objs[idx]) = k
    /\ store[k] # NoObject
    /\ ClaimPatchAnswered("ok")

NextConverge ==
    \/ ClaimAgain
    \/ ClaimLoop
    \/ ClaimPatch
    \/ Return

\* The caller keeps invoking and every call runs on; for each resource the
\* Patch succeeds at some time when it is issued again and again
FairConverge ==
    /\ WF_vars(NextConverge)
    /\ \A k \in Keys : SF_vars(PatchSucceeds(k))

SpecConverge == InitConverge /\ [][NextConverge]_vars /\ FairConverge

-----------------------------------------------------------------------------
(* Invocations for two releases that run side by side on one backend. Each
   invocation has its own locals, as each call of either function builds its
   own backend handle, discovery table and descriptors. Beside every
   invocation the same invocation is run by itself, on a backend of its own
   and with the same answers, to compare the two. *)

Releases == {"r1", "r2"}

CallNamespace == [p \in Releases |-> IF p = "r1" THEN ReleaseNamespace ELSE "other"]
CallID == [p \in Releases |-> IF p = "r1" THEN IdA ELSE IdB]

CallManifests ==
    [p \in Releases |->
        IF p = "r1"
        THEN { <<ObjDoc(Desc("ConfigMap", "", "a"))>>,
               <<ObjDoc(Desc("Widget", "", "a")),
                 ObjDoc(Desc("ConfigMap", "", "a"))>>,
               <<ObjDoc(Desc("ConfigMap", "", "a")),
                 ObjDoc(Desc("ConfigMap", "other", "a"))>> }
        ELSE { <<ObjDoc(Desc("ConfigMap", "", "a"))>> }]

\* What the backend answers: a terminal failure comes from an absent object
CallResponses == {"ok", "Timeout"}

\* The backends the invocations start on
CallStores ==
    [Keys -> {NoObject, Object(("app" :> "x")),
              Object(("app" :> "x") @@ (AntecedentAnnotation :> IDString(IdA)))}]

\* The locals of an invocation for release p with manifest m, before it starts
Locals(p, m) ==
    [op |-> "none", pc |-> "idle", id |-> CallID[p], ns |-> CallNamespace[p],
     manifest |-> m, objs |-> <<>>, idx |-> 1, steps |-> 0, res |-> NoObject,
     err |-> Nil, waitErr |-> Nil, ret |-> NoRet, nGets |-> 0, gets |-> 0]

\* Variant: an empty namespace defaults to one fixed namespace, not to the
\* namespace of the release of the call
CallKey_FixedNamespace(obj, ns) ==
    [resource |-> DiscoveryTable[obj.kind],
     ns |-> IF obj.ns = "" THEN ReleaseNamespace ELSE obj.ns,
     name |-> obj.name]

\* The resource a request for obj addresses in a call for a release in ns
CallKey(obj, ns) ==
    [resource |-> DiscoveryTable[obj.kind],
     ns |-> IF obj.ns = "" THEN ns ELSE obj.ns,
     name |-> obj.name]

\* The head of the loop of either function
LoopStep(l) ==
    IF l.idx > Len(l.objs)
    THEN [l EXCEPT !.pc = "done",
                   !.ret = IF l.op = "verify" THEN Unclaimed ELSE Failed(Nil)]
    ELSE IF RESTMappingMiss(l.objs[l.idx])
    THEN [l EXCEPT !.idx = l.idx + 1]
    ELSE IF l.op = "verify"
    THEN [l EXCEPT !.pc = "fetch", !.steps = Steps, !.res = NoObject,
                   !.err = Nil, !.waitErr = Nil, !.nGets = 0]
    ELSE [l EXCEPT !.pc = "patch"]

\* One attempt of the backoff of verify
GetStep(l, st, resp) ==
    LET got == BackendGet(st, CallKey(l.objs[l.idx], l.ns), resp)
        nxt == BackoffStep(ConditionFunc(got.err), l.steps)
    IN  [l EXCEPT !.res = got.res, !.err = got.err, !.nGets = l.nGets + 1,
                  !.gets = l.gets + 1, !.steps = nxt.steps,
                  !.waitErr = nxt.err,
                  !.pc = IF nxt.stop THEN "after" ELSE "fetch"]

\* After the backoff of verify
AfterStep(l) ==
    IF FetchErr(l.err, l.waitErr) # Nil
    THEN [l EXCEPT !.pc = "done", !.ret = Failed(FetchErr(l.err, l.waitErr))]
    ELSE IF AntecedentAnnotation \in DOMAIN l.res.annotations
    THEN [l EXCEPT !.pc = "done",
                   !.ret = AnnotationResult(
                               l.res.annotations[AntecedentAnnotation], l.id)]
    ELSE [l EXCEPT !.pc = "loop", !.idx = l.idx + 1]

\* The Patch of one descriptor of claim: the locals and the backend afterwards
PatchStep(l, st, resp) ==
    LET done == BackendPatch(st, CallKey(l.objs[l.idx], l.ns),
                             Annotation(l.id), resp)
    IN  [l |-> IF AfterPatch(done.err) = "loop"
               THEN [l EXCEPT !.pc = "loop", !.idx = l.idx + 1]
               ELSE [l EXCEPT !.pc = "done", !.ret = Failed(done.err)],
         st |-> done.store]

\* One step of an invocation with locals l on the backend st
StepOf(l, st, resp) ==
    CASE l.pc = "loop" -> [l |-> LoopStep(l), st |-> st]
      [] l.pc = "fetch" -> [l |-> GetStep(l, st, resp), st |-> st]
      [] l.pc = "after" -> [l |-> AfterStep(l), st |-> st]
      [] l.pc = "patch" -> PatchStep(l, st, resp)
      [] OTHER -> [l |-> l, st |-> st]

InitCalls ==
    /\ manifest = <<>>
    /\ store = [k \in Keys |-> NoObject]
    /\ op = "none"
    /\ pc = "idle"
    /\ resourceID = IdA
    /\ kubeConfig = "good"
    /\ objs = <<>>
    /\ idx = 1
    /\ steps = 0
    /\ res = NoObject
    /\ err = Nil
    /\ waitErr = Nil
    /\ ret = NoRet
    /\ nGets = 0
    /\ lastGet = Nil
    /\ fetched = {}
    /\ issued = {}
    /\ patched = {}
    /\ store0 = store
    /\ prev = NoPrev
    /\ \E st \in CallStores, m1 \in CallManifests["r1"], m2 \in CallManifests["r2"] :
          LET c == [p \in Releases |->
                       Locals(p, IF p = "r1" THEN m1 ELSE m2)]
          IN  calls = [store |-> st, call |-> c, solo |-> c,
                       alone |-> [p \in Releases |-> st]]

\* The invocation for release p starts: either function, with a configuration
\* both constructions accept
CallBegin(p) ==
    \E f \in {"verify", "claim"},
       order \in RangeOrders(SplitManifests(calls.call[p].manifest)) :
        LET l == [calls.call[p] EXCEPT
                     !.op = f, !.pc = "loop",
                     !.objs = releaseManifestToUnstructured(
                                  calls.call[p].manifest, order)]
        IN  /\ calls.call[p].pc = "idle"
            /\ calls' = [calls EXCEPT !.call[p] = l, !.solo[p] = l]
            /\ UNCHANGED <<manifest, store, op, pc, resourceID, kubeConfig, objs,
                           idx, steps, res, err, waitErr, ret, nGets, lastGet,
                           fetched, issued, patched, store0, prev>>

\* The invocation for release p takes its next step
CallStep(p) ==
    \E resp \in CallResponses :
        LET a == StepOf(calls.call[p], calls.store, resp)
            b == StepOf(calls.solo[p], calls.alone[p], resp)
        IN  /\ calls.call[p].pc \in {"loop", "fetch", "after", "patch"}
            /\ calls' = [store |-> a.st,
                         call |-> [calls.call EXCEPT ![p] = a.l],
                         solo |-> [calls.solo EXCEPT ![p] = b.l],
                         alone |-> [calls.alone EXCEPT ![p] = b.st]]
            /\ UNCHANGED <<manifest, store, op, pc, resourceID, kubeConfig, objs,
                           idx, steps, res, err, waitErr, ret, nGets, lastGet,
                           fetched, issued, patched, store0, prev>>

NextCalls == \E p \in Releases : CallBegin(p) \/ CallStep(p)

\* Every invocation that can take a step takes one at some time
FairCalls == \A p \in Releases : WF_vars(CallBegin(p) \/ CallStep(p))

SpecCalls == InitCalls /\ [][NextCalls]_vars /\ FairCalls

-----------------------------------------------------------------------------
(* Notions the properties share *)

Done(f) == op = f /\ pc = "done"

HasAnt(o) == o # NoObject /\ AntecedentAnnotation \in DOMAIN o.annotations

\* The ownership annotation of a live object
AntOf(o) == IF o = NoObject THEN "absent"
            ELSE IF HasAnt(o) THEN o.annotations[AntecedentAnnotation]
            ELSE "unannotated"

IsTransient(e) ==
    e \in {"ConnectionReset", "InternalError", "Timeout", "TooManyRequests",
           "RetryAfter"}

IsTerminal(e) == e \in {"NotFound", "Forbidden"}

\* The descriptors in the order of the documents in the manifest text
ManifestOrder == [i \in 1..Len(manifest) |-> i]
ManifestObjs == releaseManifestToUnstructured(manifest, ManifestOrder)

Resolvable(ds) == { i \in DOMAIN ds : ~RESTMappingMiss(ds[i]) }

\* The keys of the resources of the release
ReleaseKeys == { Key(ManifestObjs[i]) : i \in Resolvable(ManifestObjs) }

\* Positions, in manifest order, of the descriptors whose live object carries
\* the ownership annotation
AnnotatedAt ==
    { i \in Resolvable(ManifestObjs) : HasAnt(store[Key(ManifestObjs[i])]) }

FirstAnnotated == CHOOSE i \in AnnotatedAt : \A j \in AnnotatedAt : i <= j

IDStr == IDString(resourceID)

-----------------------------------------------------------------------------
(* Properties of annotatedWithResourceID *)

\* C1: when verify returns without an error and the first descriptor in
\* manifest order whose live object carries the ownership annotation has value
\* V, verify returns (V == expected, V, nil), whatever the later descriptors
\* contain.
C1_FirstAnnotatedInManifestOrder ==
    (Done("verify") /\ ret.err = Nil /\ AnnotatedAt # {})
        => ret = AnnotationResult(
                    AntOf(store[Key(ManifestObjs[FirstAnnotated])]), resourceID)

\* C2: when the backend handle and the discovery table are built and every
\* descriptor is either skipped for a resolution miss or fetched successfully
\* without the ownership annotation, verify returns (true, "", nil).
C2_AllUnannotated ==
    \A i \in DOMAIN objs :
        \/ RESTMappingMiss(objs[i])
        \/ \E r \in fetched : r.i = i /\ ~HasAnt(r.obj)

C2_UnclaimedResult ==
    (Done("verify") /\ kubeConfig = "good" /\ C2_AllUnannotated)
        => ret = [ok |-> TRUE, v |-> "", err |-> Nil]

C2_Witness ==
    /\ Done("verify")
    /\ kubeConfig = "good"
    /\ C2_AllUnannotated
    /\ Len(objs) >= 2
    /\ fetched # {}
    /\ \E i \in DOMAIN objs : RESTMappingMiss(objs[i])

\* C3: the unclaimed result (true, "", nil) is returned only when no fetched
\* live object carried the ownership annotation, and a return on a fetched
\* annotation reports that value, with the boolean false when the value differs
\* from the expected identifier.
C3_UnclaimedNotConflated ==
    Done("verify") =>
        /\ ret = [ok |-> TRUE, v |-> "", err |-> Nil]
              => \A r \in fetched : ~HasAnt(r.obj)
        /\ \A r \in fetched :
              HasAnt(r.obj) =>
                  /\ ret.err = Nil
                  /\ ret.v = AntOf(r.obj)
                  /\ ret.ok = (AntOf(r.obj) = IDStr)
                  /\ (AntOf(r.obj) # IDStr => ret.ok = FALSE)

C3_Witness ==
    /\ Done("verify")
    /\ \E r \in fetched : HasAnt(r.obj) /\ AntOf(r.obj) # IDStr
    /\ \E r \in fetched : ~HasAnt(r.obj)

\* C4 as stated: a fetch that fails with a terminal error returns at once with
\* that error, and exactly one Get was issued for that resource.
C4_ExactlyOneGet ==
    (Done("verify") /\ IsTerminal(lastGet))
        => (ret = Failed(lastGet) /\ nGets = 1)

\* C4 as amended: a Get that fails with a terminal error is the last request
\* of the call: no retry follows, verify returns (false, "", that error) and no
\* later descriptor is examined. The descriptor received one Get per transient
\* failure that preceded the terminal one plus one, so exactly one Get when the
\* terminal failure is its first attempt.
C4_TerminalStops ==
    (op = "verify" /\ IsTerminal(lastGet)) =>
        /\ pc \in {"after", "done"}
        /\ err = lastGet
        /\ pc = "done" => ret = Failed(lastGet)
        /\ nGets = (Steps - steps) + 1
        /\ steps = Steps => nGets = 1
        /\ \A r \in issued : r.verb = "get" /\ r.i <= idx

C4_Witness ==
    /\ Done("verify")
    /\ lastGet = "NotFound"
    /\ nGets = 1
    /\ idx < Len(objs)
    /\ ~RESTMappingMiss(objs[idx + 1])

\* C5: a fetch that fails transiently N times, N below the step count of the
\* backoff, and then succeeds yields the object with no error: verify inspects
\* the annotation of that object as after a first Get that succeeded, and a
\* transient error is surfaced only once the steps are exhausted.
C5_RetryThenSuccess ==
    /\ (op = "verify" /\ pc = "after" /\ lastGet = Nil) =>
          /\ err = Nil
          /\ FetchErr(err, waitErr) = Nil
          /\ nGets \in 1..Steps
          /\ res = store[Key(objs[idx])]
    /\ (op = "verify" /\ IsTransient(lastGet)) =>
          \/ pc = "fetch" /\ nGets < Steps
          \/ pc \in {"after", "done"} /\ nGets = Steps
    /\ (Done("verify") /\ lastGet = Nil /\ idx <= Len(objs)) =>
          /\ HasAnt(res)
          /\ ret = [ok |-> AntOf(res) = IDStr, v |-> AntOf(res), err |-> Nil]

C5_Witness ==
    /\ Done("verify")
    /\ lastGet = Nil
    /\ nGets = Steps
    /\ ret.err = Nil
    /\ ret.v = AntOf(store[Key(objs[idx])])

\* C6: when every attempt of the backoff for a resource fails transiently,
\* verify returns (false, "", e) with e the error of the last Get, not the
\* timeout of the backoff and not nil, and no later descriptor is examined.
C6_ExhaustionSurfacesLastError ==
    /\ (op = "verify" /\ pc = "after" /\ IsTransient(lastGet)) =>
          /\ nGets = Steps
          /\ FetchErr(err, waitErr) = lastGet
    /\ (Done("verify") /\ IsTransient(lastGet)) =>
          /\ nGets = Steps
          /\ ret = [ok |-> FALSE, v |-> "", err |-> lastGet]
          /\ ret.err \notin {Nil, ErrWaitTimeout}
          /\ \A r \in fetched : r.i < idx
          /\ \A r \in issued : r.i <= idx

C6_Witness ==
    /\ Done("verify")
    /\ IsTransient(lastGet)
    /\ nGets = Steps
    /\ store[Key(objs[idx])] # NoObject
    /\ idx < Len(objs)
    /\ ~RESTMappingMiss(objs[idx + 1])

-----------------------------------------------------------------------------
(* Properties of both functions *)

\* C7: when the backend handle or the discovery table cannot be built, verify
\* returns (false, "", err), claim returns err, and no Get and no Patch is
\* issued for any descriptor.
C7_ConstructionFailureAborts ==
    (op # "none" /\ kubeConfig # "good") =>
        /\ pc = "done"
        /\ ret.err = (IF kubeConfig = "badClient"
                      THEN "ErrClientConfig" ELSE "ErrDiscovery")
        /\ ret.ok = FALSE
        /\ ret.v = ""
        /\ issued = {}
        /\ store = store0

C7_Witness ==
    /\ Done("claim")
    /\ kubeConfig = "badDiscovery"
    /\ Resolvable(ManifestObjs) # {}
    /\ \E k \in ReleaseKeys : store[k] # NoObject

-----------------------------------------------------------------------------
(* Properties of annotateWithResourceID *)

\* C8: whatever descriptors miss resolution and whatever patches fail, claim
\* attempts a Patch for every resolvable descriptor and returns nil.
C8_LoopCompletes ==
    /\ (op = "claim" /\ kubeConfig = "good" /\ pc = "done") =>
          /\ ret.err = Nil
          /\ idx = Len(objs) + 1
          /\ \A i \in Resolvable(objs) :
                [verb |-> "patch", i |-> i, key |-> Key(objs[i])] \in issued
    /\ (op = "claim" /\ kubeConfig = "good" /\ pc # "done") =>
          /\ pc \in {"loop", "patch"}
          /\ \A i \in Resolvable(objs) :
                i < idx =>
                    [verb |-> "patch", i |-> i, key |-> Key(objs[i])] \in issued

C8_Witness ==
    /\ Done("claim")
    /\ ret.err = Nil
    /\ \E i \in DOMAIN objs : RESTMappingMiss(objs[i])
    /\ \E r1, r2 \in issued :
          /\ r1.i < r2.i
          /\ r1.key \notin patched
          /\ r2.key \in patched

\* C9 as stated: after a second claim with the identifier of the claim before
\* it, every resource of the release carries the annotation value it carried
\* after the first.
C9_SecondClaimChangesNothing ==
    (Done("claim") /\ kubeConfig = "good" /\ prev.id = IDStr) =>
        \A k \in ReleaseKeys : AntOf(store[k]) = AntOf(store0[k])

\* C9 as amended: a resource that a claim patched successfully carries the
\* identifier, and a second claim with the same identifier leaves every
\* resource that carries the identifier after the first claim exactly as it
\* is. A resource whose patch failed in the first claim can receive the
\* annotation in the second.
C9_IdempotentWherePatched ==
    /\ op = "claim" => \A k \in patched : AntOf(store[k]) = IDStr
    /\ (op = "claim" /\ prev.id = IDStr) =>
          \A k \in Keys : AntOf(store0[k]) = IDStr => store[k] = store0[k]

C9_Witness ==
    /\ Done("claim")
    /\ prev.id = IDStr
    /\ \E k \in patched : AntOf(store0[k]) = IDStr
    /\ \E k \in ReleaseKeys : AntOf(store0[k]) # IDStr

\* C10: a patch of claim sets the ownership annotation of the patched resource
\* to the identifier and changes no other annotation and no other field, and
\* only resources of descriptors of the manifest are patched.
C10_PatchFrame ==
    op = "claim" =>
        /\ \A k \in Keys \ patched : store[k] = store0[k]
        /\ \A k \in patched :
              /\ store[k] # NoObject
              /\ store0[k] # NoObject
              /\ store[k].data = store0[k].data
              /\ DOMAIN store[k].annotations =
                    DOMAIN store0[k].annotations \cup {AntecedentAnnotation}
              /\ store[k].annotations[AntecedentAnnotation] = IDStr
              /\ \A a \in DOMAIN store0[k].annotations \ {AntecedentAnnotation} :
                    store[k].annotations[a] = store0[k].annotations[a]
        /\ patched \subseteq ReleaseKeys
        /\ \A r \in issued : r.verb = "patch" /\ r.key \in ReleaseKeys

C10_Witness ==
    /\ Done("claim")
    /\ patched # {}
    /\ Keys \ ReleaseKeys # {}
    /\ \E k \in patched :
          /\ "app" \in DOMAIN store0[k].annotations
          /\ HasAnt(store0[k])
          /\ AntOf(store0[k]) # IDStr

-----------------------------------------------------------------------------
(* Properties of releaseManifestToUnstructured *)

\* The descriptor a list member stands for
ItemDesc(item) == IF item.t = "list" THEN ListDesc ELSE item.d

\* A document that parses and, when it is a list, converts
Yields(doc) ==
    /\ doc.t # "bad"
    /\ doc.t = "list" => \A i \in DOMAIN doc.items : doc.items[i].t # "scalar"

\* The descriptors a document stands for: none when it does not parse or its
\* list does not convert
Expected(doc) ==
    IF ~Yields(doc) THEN <<>>
    ELSE IF doc.t = "list"
         THEN [i \in DOMAIN doc.items |-> ItemDesc(doc.items[i])]
         ELSE <<doc.d>>

RECURSIVE ExpectedIn(_, _)
ExpectedIn(order, i) ==
    IF i > Len(order) THEN <<>>
    ELSE Expected(manifest[order[i]]) \o ExpectedIn(order, i + 1)

RECURSIVE ExpectedLen(_)
ExpectedLen(i) ==
    IF i > Len(manifest) THEN 0
    ELSE Len(Expected(manifest[i])) + ExpectedLen(i + 1)

\* s occurs in t as a run of consecutive elements
IsBlockOf(s, t) ==
    \E k \in 0..(Len(t) - Len(s)) : SubSeq(t, k + 1, k + Len(s)) = s

\* C11 as stated: the decomposer returns the descriptors in manifest order, the
\* members of a list wrapper inlined at the wrapper's position, so that two
\* decompositions of one manifest yield the same sequence.
C11_ManifestOrder ==
    Done("decompose") => objs = ManifestObjs

\* C12 as stated: no list wrapper appears as a descriptor in the decomposer's
\* output, for every manifest, also when a list wrapper is a member of a list
\* wrapper.
C12_NoListDescriptor ==
    Done("decompose") => \A i \in DOMAIN objs : objs[i].kind # "List"

\* The list members of the documents from position i on that are themselves
\* list wrappers, counted over the lists that convert
RECURSIVE NestedWrappers(_)
NestedWrappers(i) ==
    IF i > Len(manifest) THEN 0
    ELSE (IF manifest[i].t = "list" /\ Yields(manifest[i])
          THEN Cardinality({ k \in DOMAIN manifest[i].items :
                               manifest[i].items[k].t = "list" })
          ELSE 0) + NestedWrappers(i + 1)

\* The documents of a list kind that have no items array
ItemlessWrappers == { j \in DOMAIN manifest : manifest[j] = ListKindDoc }

\* C12 amended: a list-wrapper document whose items is an array adds no
\* descriptor of its own; when it converts, its members appear as consecutive
\* descriptors in their relative order. A descriptor of a list kind appears in
\* exactly two cases: a member that is itself a list wrapper appears as one
\* descriptor, unexpanded, and a list-kind document without an items array
\* appears as one descriptor itself.
C12_WrapperDocumentDiscarded ==
    Done("decompose") =>
        /\ Len(objs) = ExpectedLen(1)
        /\ \A j \in DOMAIN manifest :
              (manifest[j].t = "list" /\ Yields(manifest[j]))
                  => IsBlockOf(Expected(manifest[j]), objs)
        /\ Cardinality({ i \in DOMAIN objs : objs[i].kind = "List" })
              = NestedWrappers(1) + Cardinality(ItemlessWrappers)

C12_Witness ==
    /\ Done("decompose")
    /\ Len(manifest) = 2
    /\ \E j \in DOMAIN manifest :
          /\ manifest[j].t = "list"
          /\ Yields(manifest[j])
          /\ Len(manifest[j].items) = 3
          /\ \E i \in DOMAIN manifest[j].items : manifest[j].items[i].t = "list"
    /\ ItemlessWrappers # {}
    /\ Len(objs) = 4
    /\ Cardinality({ i \in DOMAIN objs : objs[i] = ListDesc }) = 2

\* C18: a document that does not parse, or a list wrapper whose conversion
\* fails, contributes no descriptor, not even a partial one, and every other
\* document still yields its descriptors.
C18_FailedDocumentSkipped ==
    Done("decompose") =>
        \E order \in RangeOrders(SplitManifests(manifest)) :
            objs = ExpectedIn(order, 1)

C18_Witness ==
    /\ Done("decompose")
    /\ Len(manifest) = 2
    /\ ~Yields(manifest[1])
    /\ manifest[1].t = "list"
    /\ Yields(manifest[2])
    /\ objs = Expected(manifest[2])
    /\ objs # <<>>

-----------------------------------------------------------------------------
(* Properties of the requests both functions issue *)

\* C13: every Get of verify and every Patch of claim is issued in the
\* descriptor's own namespace when it names one, and in the namespace of the
\* release when it names none.
C13_RequestNamespace ==
    \A r \in issued :
        r.key.ns = IF objs[r.i].ns # "" THEN objs[r.i].ns ELSE ReleaseNamespace

C13_Witness ==
    /\ \E r \in issued : objs[r.i].ns = "other" /\ r.key.ns = "other"
    /\ \E r \in issued : objs[r.i].ns = "" /\ r.key.ns = ReleaseNamespace
    /\ \E r \in issued : r.verb = "patch"

\* The sequencing of verify: a resolution miss issues no Get, no Get is issued
\* for a descriptor after the one the loop is at, and the call ends at the
\* descriptor whose fetch surfaced an error or whose object is annotated
C16_Sequencing ==
    op = "verify" =>
        /\ \A r \in issued :
              /\ r.verb = "get"
              /\ ~RESTMappingMiss(objs[r.i])
              /\ r.i <= idx
        /\ \A r \in fetched :
              /\ r.i <= idx
              /\ HasAnt(r.obj) => (pc = "done" /\ r.i = idx)
        /\ (pc = "done" /\ ret.err # Nil /\ kubeConfig = "good")
              => \E r \in issued : r.i = idx

\* C16 as stated: verify goes through the descriptors one at a time in manifest
\* order; a miss issues no Get, the Gets of one descriptor end before the first
\* Get of the next, and no Get is issued after the first annotated object or
\* the first surfaced fetch error.
C16_ManifestOrderShortCircuit ==
    /\ (op = "verify" /\ kubeConfig = "good") => objs = ManifestObjs
    /\ C16_Sequencing

\* C19: verify only reads: it issues Gets and no Patch, and the annotations of
\* every object are the same during and after the call as before it.
C19_VerifyReadOnly ==
    op = "verify" =>
        /\ store = store0
        /\ patched = {}
        /\ \A r \in issued : r.verb = "get"

C19_Witness ==
    /\ Done("verify")
    /\ ret = Unclaimed
    /\ Cardinality(fetched) >= 2
    /\ \E r \in fetched : ~HasAnt(r.obj)
    /\ store = store0

-----------------------------------------------------------------------------
(* Properties of a claim followed by a verify *)

\* A verify call that directly follows a claim which patched at least one
\* resource and whose patches all succeeded, and has returned
AfterCleanClaim == Done("verify") /\ prev.clean

\* C20 as stated: after a claim with identifier A whose patches all succeeded,
\* on a manifest with at least one resolvable existing resource, the next
\* verify, with a configuration its constructions accept, returns
\* (true, A, nil) when asked for A and (false, A, nil) when asked for another
\* identifier.
C20_RoundTrip ==
    (AfterCleanClaim /\ kubeConfig = "good") =>
        ret = [ok |-> (IDStr = prev.id), v |-> prev.id, err |-> Nil]

\* C20 amended: such a verify returns (true, A, nil) for A and (false, A, nil)
\* for another identifier whenever it returns no error; it returns
\* (false, "", error) when a construction fails or a Get surfaces an error,
\* and never the unclaimed result.
C20_RoundTripUnlessError ==
    AfterCleanClaim =>
        /\ ret.err = Nil
              => ret = [ok |-> (IDStr = prev.id), v |-> prev.id, err |-> Nil]
        /\ ret.err # Nil
              => /\ ret = Failed(ret.err)
                 /\ \/ kubeConfig # "good"
                    \/ ret.err = FetchErr(err, waitErr)
        /\ ret # Unclaimed

C20_Witness ==
    /\ AfterCleanClaim
    /\ IDStr # prev.id
    /\ ret = [ok |-> FALSE, v |-> prev.id, err |-> Nil]
    /\ Cardinality(ReleaseKeys) = 2
    /\ nGets >= 2

-----------------------------------------------------------------------------
(* Properties of repeated claims *)

\* The resources of the release that exist in the backend
LiveReleaseKeys == { k \in ReleaseKeys : store[k] # NoObject }

AllClaimed == \A k \in LiveReleaseKeys : AntOf(store[k]) = IDString(IdA)

\* C14: when claim is invoked again and again with the same manifest and
\* identifier, nothing else writes, and for each resolvable resource a Patch
\* succeeds at some time, then from some time on every resolvable resource
\* carries the identifier, for good.
C14_Converges == <>[]AllClaimed

C14_Witness ==
    /\ op = "claim"
    /\ prev.id = IDString(IdA)
    /\ AllClaimed
    /\ Cardinality(LiveReleaseKeys) = 2
    /\ patched # {}
    /\ \E k \in patched : AntOf(store0[k]) # IDString(IdA)
    /\ \E k \in LiveReleaseKeys : k \notin patched

-----------------------------------------------------------------------------
(* Properties of invocations that run side by side *)

\* The resources the manifest of the invocation for release p resolves to
CallKeys(p) ==
    LET m == calls.call[p].manifest
    IN  { [resource |-> "configmaps",
           ns |-> IF m[i].d.ns = "" THEN CallNamespace[p] ELSE m[i].d.ns,
           name |-> m[i].d.name] :
            i \in { j \in DOMAIN m : m[j].d.kind = "ConfigMap" } }

\* The invocation for release p has seen and done what it sees and does when
\* it runs by itself, and the resources of its release are as they are then
SameAsAlone(p) ==
    /\ calls.call[p] = calls.solo[p]
    /\ \A k \in CallKeys(p) : calls.store[k] = calls.alone[p][k]

DisjointReleases ==
    \A p, q \in Releases : p # q => CallKeys(p) \cap CallKeys(q) = {}

\* C15 as stated: under every interleaving of the Gets and Patches of
\* concurrent invocations for different releases, the result of each invocation
\* and the annotations of the resources of its release are those of the
\* invocation run alone.
C15_Independent == \A p \in Releases : SameAsAlone(p)

\* C15 amended: the same, for releases whose manifests resolve to disjoint sets
\* of resources.
C15_IndependentWhenDisjoint ==
    DisjointReleases => \A p \in Releases : SameAsAlone(p)

C15_Witness ==
    /\ DisjointReleases
    /\ \A p \in Releases : calls.call[p].pc = "done"
    /\ calls.call["r1"].op = "verify"
    /\ calls.call["r1"].gets >= 2
    /\ calls.call["r2"].op = "claim"
    /\ \E k \in CallKeys("r2") : calls.store[k] # calls.alone["r1"][k]
    /\ \A p \in Releases : SameAsAlone(p)

\* The Gets of a verify stay within the retry ceiling for one descriptor and
\* within the ceiling times the number of descriptors for the call
C17_GetsBounded ==
    \A p \in Releases :
        calls # NoCalls /\ calls.call[p].op = "verify" =>
            /\ calls.call[p].nGets <= Steps
            /\ calls.call[p].gets <= Steps * Len(calls.call[p].objs)

\* C17: verify always terminates: it issues at most the retry ceiling of Gets
\* for one descriptor and at most the ceiling times the number of descriptors
\* in all, and it returns a result at some time, also when every Get fails
\* transiently.
C17_VerifyTerminates ==
    /\ []C17_GetsBounded
    /\ \A p \in Releases :
          (calls.call[p].op = "verify") ~> (calls.call[p].pc = "done")

C17_Witness ==
    /\ calls.call["r1"].op = "verify"
    /\ calls.call["r1"].pc = "done"
    /\ Len(calls.call["r1"].objs) = 2
    /\ calls.call["r1"].gets = Steps * 2
    /\ calls.call["r1"].ret = Failed("Timeout")

====
